---- MODULE Spec2Model ----
(***************************************************************************)
(* A model of analyze_results.py, the script that analyses the output of   *)
(* the HL7 FHIR Validator: it reads a report of OperationOutcome records,  *)
(* drops the issues listed in a YAML file of ignored issues, prints the    *)
(* rest and exits non-zero when an issue at the fail level or graver is    *)
(* left.                                                                   *)
(*                                                                         *)
(* Texts and messages are sequences of characters, so that                 *)
(* str.startswith is computed and not assumed.  The inputs of one run (the *)
(* command line options, the rules of the YAML file, the outcome records   *)
(* and their issues) are drawn from small sets, and the number of input    *)
(* items of one run is bounded by MaxSize.                                  *)
(*                                                                         *)
(* What the input sets leave out: a YAML rule that already holds a         *)
(* "processed" key, an expression key with an empty list of rules, an id   *)
(* key without "ignored issues", and a record without the file extension   *)
(* or an issue without f:severity (both end the run with an exception      *)
(* before anything is decided).                                            *)
(***************************************************************************)
EXTENDS Integers, Sequences, FiniteSets, TLC

\* The bound of the model: options given on the command line + rules of the
\* YAML file + outcome records + issues of one run.
MaxSize == 4

----
\* The input alphabet

\* issue_levels (lines 7-12)
issue_levels == [fatal |-> 0, error |-> 1, warning |-> 2, information |-> 3]

\* The severities a report may hold: the four known ones and an unknown one.
Severities == {"fatal", "error", "warning", "information", "bogus"}

\* choices of --fail-at and --verbosity-level (lines 67, 69)
Choices == {"error", "warning", "information"}

DefaultFailAt == "error"

DefaultVerbosity == "information"

\* "All OK", the text of the Validator's no-issue marker (line 150)
AllOK == <<"A", "l", "l", " ", "O", "K">>

\* "P: detail", some other text
PDetail == <<"P", ":", " ", "d", "e", "t", "a", "i", "l">>

Texts == {AllOK, PDetail}

\* The messages of the rules: "All" and "P"
Messages == {<<"A", "l", "l">>, <<"P">>}

\* result.id is None when the resource has no id (lines 53-56)
NoId == "None"

Ids == {"123", NoId}

\* f:expression of an issue, "" when absent (lines 133-136)
Expressions == {"", "Patient.name"}

\* One rule of the YAML file: a dict that may hold "message" and "reason";
\* "processed" is the key line 148 adds.
Rule(hasMessage, message, hasReason) ==
    [hasMessage |-> hasMessage, message |-> message,
     hasReason |-> hasReason, processed |-> FALSE]

Rules ==
    {Rule(TRUE, m, hr) : m \in Messages, hr \in BOOLEAN}
        \cup {Rule(FALSE, <<>>, TRUE)}

----
\* Pure helpers

\* A variant of StartsWith: the message has to be the whole text.
StartsWith_Equal(text, prefix) == text = prefix

\* str.startswith (line 143)
StartsWith(text, prefix) ==
    /\ Len(prefix) <= Len(text)
    /\ SubSeq(text, 1, Len(prefix)) = prefix

EmptyDict == [x \in {} |-> x]

\* Number of rules in a dict expression -> list of rules
RECURSIVE NumRulesOf(_, _)
NumRulesOf(d, keys) ==
    IF keys = {} THEN 0
    ELSE LET e == CHOOSE x \in keys : TRUE
         IN Len(d[e]) + NumRulesOf(d, keys \ {e})

RECURSIVE NumRules(_, _)
NumRules(al, ids) ==
    IF ids = {} THEN 0
    ELSE LET r == CHOOSE x \in ids : TRUE
         IN NumRulesOf(al[r], DOMAIN al[r]) + NumRules(al, ids \ {r})

RECURSIVE SumIssues(_)
SumIssues(os) ==
    IF os = <<>> THEN 0 ELSE Head(os).n + SumIssues(Tail(os))

\* One line of output
Line(kind, file, id, severity, text, expression) ==
    [kind |-> kind, file |-> file, id |-> id, severity |-> severity,
     text |-> text, expression |-> expression]

Msg(kind, id, expression) == Line(kind, 0, id, "", <<>>, expression)

----
VARIABLES
    pc,               \* where the script is
    fail_level,       \* line 80
    verbosity_level,  \* line 81
    ignored_issues,   \* line 90-96: id -> expression -> list of rules
    outcomes,         \* line 104-107: the records, each [id, n] (its resource's
                      \* id and the number of its f:issue elements)
    idx,              \* the record the loop of line 109 is at
    k,                \* the number of issues of this record already handled
    result,           \* line 111: the Result being filled
    severity,         \* line 131
    text,             \* line 120-122
    expression,       \* line 133-136
    issue_ignored,    \* line 139
    results,          \* line 103
    p,                \* the Result the loop of line 166 is at
    success,          \* line 165
    output,           \* what was printed
    exit_status,      \* -1 while running
    seen              \* history: the [id, expression, text] of the issues read

vars == <<pc, fail_level, verbosity_level, ignored_issues, outcomes, idx, k,
          result, severity, text, expression, issue_ignored, results, p,
          success, output, exit_status, seen>>

scan == <<idx, k, result, severity, text, expression, issue_ignored, results,
         seen>>

NoResult == [file_path |-> 0, id |-> NoId, issues |-> <<>>]

Init ==
    /\ pc = "options"
    /\ fail_level = issue_levels[DefaultFailAt]
    /\ verbosity_level = issue_levels[DefaultVerbosity]
    /\ ignored_issues = EmptyDict
    /\ outcomes = <<>>
    /\ idx = 0
    /\ k = 0
    /\ result = NoResult
    /\ severity = ""
    /\ text = <<>>
    /\ expression = ""
    /\ issue_ignored = FALSE
    /\ results = <<>>
    /\ p = 0
    /\ success = TRUE
    /\ output = <<>>
    /\ exit_status = -1
    /\ seen = {}

\* Number of input items used so far
OptionsGiven ==
    (IF fail_level = issue_levels[DefaultFailAt] THEN 0 ELSE 1)
        + (IF verbosity_level = issue_levels[DefaultVerbosity] THEN 0 ELSE 1)

Size ==
    OptionsGiven + NumRules(ignored_issues, DOMAIN ignored_issues)
        + Len(outcomes) + SumIssues(outcomes)

\* sys.exit(status) after printing line
Exit(status, line) ==
    /\ pc' = "exited"
    /\ exit_status' = status
    /\ output' = Append(output, line)

----
\* A variant of OptionsRejected: the comparison turned round.
OptionsRejected_Inverted(fl, vl) == fl < vl

\* Lines 76-88: the options.  parser.error prints the usage and exits with 2.
OptionsRejected(fl, vl) == fl > vl

ParseOptions ==
    /\ pc = "options"
    /\ \E fa \in Choices, v \in Choices :
         /\ fail_level' = issue_levels[fa]
         /\ verbosity_level' = issue_levels[v]
         /\ IF OptionsRejected(issue_levels[fa], issue_levels[v])
            THEN Exit(2, Msg("usage", NoId, ""))
            ELSE /\ pc' = "load"
                 /\ UNCHANGED <<output, exit_status>>
    /\ UNCHANGED <<ignored_issues, outcomes, scan, p, success>>

\* Lines 92-96: yaml.safe_load, one rule of the file at a time; rule is put at
\* the end of ignored_issues[r]["ignored issues"][e].
AddRule(al, r, e, rule) ==
    IF r \notin DOMAIN al THEN al @@ (r :> (e :> <<rule>>))
    ELSE IF e \notin DOMAIN al[r]
         THEN [al EXCEPT ![r] = @ @@ (e :> <<rule>>)]
         ELSE [al EXCEPT ![r][e] = Append(@, rule)]

LoadRule ==
    /\ pc = "load"
    /\ Size < MaxSize
    /\ \E r \in Ids, e \in Expressions, rule \in Rules :
         ignored_issues' = AddRule(ignored_issues, r, e, rule)
    /\ UNCHANGED <<pc, fail_level, verbosity_level, outcomes, scan, p,
                   success, output, exit_status>>

\* Lines 98-107: the report is parsed into its OperationOutcome records.
ParseReport ==
    /\ pc = "load"
    /\ \E n \in 0..(MaxSize - Size) :
         \E ids \in [1..n -> Ids], ns \in [1..n -> 0..(MaxSize - Size - n)] :
           LET os == [i \in 1..n |-> [id |-> ids[i], n |-> ns[i]]]
           IN /\ n + SumIssues(os) <= MaxSize - Size
              /\ outcomes' = os
    /\ pc' = "outcome"
    /\ UNCHANGED <<fail_level, verbosity_level, ignored_issues, scan, p,
                   success, output, exit_status>>

----
\* Lines 109-115: the next record.  Result(file_name) reads the id of the
\* resource; file_path is modelled by the position of the record.
\* curr_ignored_issues is ignored_issues[result.id]["ignored issues"], the
\* same object, or {} when the YAML file has nothing for this id.
CurrIgnored(al, id) == IF id \in DOMAIN al THEN al[id] ELSE EmptyDict

StartOutcome ==
    /\ pc = "outcome"
    /\ idx < Len(outcomes)
    /\ idx' = idx + 1
    /\ result' = [file_path |-> idx + 1, id |-> outcomes[idx + 1].id,
                  issues |-> <<>>]
    /\ k' = 0
    /\ pc' = "issue"
    /\ UNCHANGED <<fail_level, verbosity_level, ignored_issues, outcomes,
                   severity, text, expression, issue_ignored, results, p,
                   success, output, exit_status, seen>>

\* A variant of KnownIssueLoop: line 144-146, the test for a reason, left out.
RECURSIVE KnownIssueLoop_NoReasonCheck(_, _, _, _)
KnownIssueLoop_NoReasonCheck(rules, i, txt, ignored) ==
    IF i > Len(rules)
    THEN [rules |-> rules, ignored |-> ignored, exited |-> FALSE]
    ELSE IF rules[i].hasMessage /\ StartsWith(txt, rules[i].message)
         THEN KnownIssueLoop_NoReasonCheck(
                  [rules EXCEPT ![i].processed = TRUE], i + 1, txt, TRUE)
         ELSE KnownIssueLoop_NoReasonCheck(rules, i + 1, txt, ignored)

\* A variant of KnownIssueLoop: a break after line 148, so that the loop
\* ends at the first rule that matches.
RECURSIVE KnownIssueLoop_FirstMatch(_, _, _, _)
KnownIssueLoop_FirstMatch(rules, i, txt, ignored) ==
    IF i > Len(rules)
    THEN [rules |-> rules, ignored |-> ignored, exited |-> FALSE]
    ELSE IF rules[i].hasMessage /\ StartsWith(txt, rules[i].message)
         THEN IF ~rules[i].hasReason
              THEN [rules |-> rules, ignored |-> ignored, exited |-> TRUE]
              ELSE [rules |-> [rules EXCEPT ![i].processed = TRUE],
                    ignored |-> TRUE, exited |-> FALSE]
         ELSE KnownIssueLoop_FirstMatch(rules, i + 1, txt, ignored)

\* Lines 141-148: the loop over the rules of one expression, from rule i on.
\* Gives the rules as the loop leaves them, whether the issue is ignored, and
\* whether the loop ended in sys.exit(1) at a rule without a reason.
RECURSIVE KnownIssueLoop(_, _, _, _)
KnownIssueLoop(rules, i, txt, ignored) ==
    IF i > Len(rules)
    THEN [rules |-> rules, ignored |-> ignored, exited |-> FALSE]
    ELSE IF rules[i].hasMessage /\ StartsWith(txt, rules[i].message)
         THEN IF ~rules[i].hasReason
              THEN [rules |-> rules, ignored |-> ignored, exited |-> TRUE]
              ELSE KnownIssueLoop([rules EXCEPT ![i].processed = TRUE],
                                  i + 1, txt, TRUE)
         ELSE KnownIssueLoop(rules, i + 1, txt, ignored)

\* Line 150: the Validator's "All OK" issue
IsAllOK(sev, txt, n) == sev = "information" /\ txt = AllOK /\ n = 1

\* Lines 139-151: is the issue known and to be ignored?
IgnoreCheck(curr, sev, txt, expr, n) ==
    IF expr \in DOMAIN curr
    THEN KnownIssueLoop(curr[expr], 1, txt, FALSE)
    ELSE [rules |-> <<>>, ignored |-> IsAllOK(sev, txt, n), exited |-> FALSE]

\* Lines 60-63: Result.addIssue
KnownSeverity(sev) == sev \in DOMAIN issue_levels

Issue(sev, txt, expr) == [severity |-> sev, text |-> txt, expression |-> expr]

\* Lines 117-154: one issue of the record
ProcessIssue ==
    /\ pc = "issue"
    /\ k < outcomes[idx].n
    /\ \E sev \in Severities, txt \in Texts, expr \in Expressions :
         LET curr == CurrIgnored(ignored_issues, result.id)
             c == IgnoreCheck(curr, sev, txt, expr, outcomes[idx].n)
         IN /\ severity' = sev
            /\ text' = txt
            /\ expression' = expr
            /\ k' = k + 1
            /\ seen' = seen \cup {[id |-> result.id, expression |-> expr,
                                   text |-> txt]}
            /\ issue_ignored' = c.ignored
            /\ ignored_issues' =
                 IF expr \in DOMAIN curr
                 THEN [ignored_issues EXCEPT ![result.id][expr] = c.rules]
                 ELSE ignored_issues
            /\ IF c.exited
               THEN /\ Exit(1, Msg("noreason", result.id, expr))
                    /\ UNCHANGED result
               ELSE IF c.ignored
               THEN UNCHANGED <<pc, output, exit_status, result>>
               ELSE IF ~KnownSeverity(sev)
               THEN /\ Exit(1, Msg("exception", result.id, expr))
                    /\ UNCHANGED result
               ELSE /\ result' = [result EXCEPT
                                    !.issues = Append(@, Issue(sev, txt, expr))]
                    /\ UNCHANGED <<pc, output, exit_status>>
    /\ UNCHANGED <<fail_level, verbosity_level, outcomes, idx, results, p,
                   success>>

\* A variant of StaleExpressions: no rule is ever found unprocessed.
StaleExpressions_Never(curr) == {}

\* A variant of StaleExpressions: only the first rule of each list is looked at.
StaleExpressions_FirstRule(curr) ==
    {e \in DOMAIN curr : Len(curr[e]) > 0 /\ ~curr[e][1].processed}

\* Lines 157-162: the expressions of curr that hold a rule without "processed"
StaleExpressions(curr) ==
    {e \in DOMAIN curr : \E i \in 1..Len(curr[e]) : ~curr[e][i].processed}

\* Lines 155-162: the end of the record
EndOutcome ==
    /\ pc = "issue"
    /\ k = outcomes[idx].n
    /\ results' = Append(results, result)
    /\ LET stale == StaleExpressions(CurrIgnored(ignored_issues, result.id))
       IN IF stale # {}
          THEN \E e \in stale : Exit(1, Msg("stale", result.id, e))
          ELSE /\ pc' = "outcome"
               /\ UNCHANGED <<output, exit_status>>
    /\ UNCHANGED <<fail_level, verbosity_level, ignored_issues, outcomes, idx,
                   k, result, severity, text, expression, issue_ignored, p,
                   success, seen>>

----
\* Lines 164-165: all records are done
StartPrinting ==
    /\ pc = "outcome"
    /\ idx = Len(outcomes)
    /\ pc' = "print"
    /\ success' = TRUE
    /\ p' = 0
    /\ UNCHANGED <<fail_level, verbosity_level, ignored_issues, outcomes,
                   scan, output, exit_status>>

\* A variant of Fails: only issues graver than the fail level count.
Fails_Strict(issue, fl) == issue_levels[issue.severity] < fl

\* Line 174
Fails(issue, fl) == issue_levels[issue.severity] <= fl

\* Line 176
Shown(issue, vl) == issue_levels[issue.severity] <= vl

\* Lines 173-177: the lines printed for the issues of one Result
RECURSIVE IssueLines(_, _, _)
IssueLines(r, issues, vl) ==
    IF issues = <<>> THEN <<>>
    ELSE (IF Shown(Head(issues), vl)
          THEN <<Line("issue", r.file_path, r.id, Head(issues).severity,
                      Head(issues).text, Head(issues).expression)>>
          ELSE <<>>) \o IssueLines(r, Tail(issues), vl)

\* Lines 166-179: one Result
PrintResult ==
    /\ pc = "print"
    /\ p < Len(results)
    /\ p' = p + 1
    /\ LET r == results[p + 1]
       IN IF Len(r.issues) > 0
          THEN /\ output' = output
                     \o <<Line("header", r.file_path, r.id, "", <<>>, "")>>
                     \o IssueLines(r, r.issues, verbosity_level)
                     \o <<Msg("blank", NoId, "")>>
               /\ success' = (success /\ ~\E i \in 1..Len(r.issues) :
                                             Fails(r.issues[i], fail_level))
          ELSE UNCHANGED <<output, success>>
    /\ UNCHANGED <<pc, fail_level, verbosity_level, ignored_issues, outcomes,
                   scan, exit_status>>

\* Lines 181-184: the verdict
Verdict ==
    /\ pc = "print"
    /\ p = Len(results)
    /\ IF ~success
       THEN Exit(1, Msg("failed", NoId, ""))
       ELSE Exit(0, Msg("allwell", NoId, ""))
    /\ UNCHANGED <<fail_level, verbosity_level, ignored_issues, outcomes,
                   scan, p, success>>

Next ==
    \/ ParseOptions
    \/ LoadRule
    \/ ParseReport
    \/ StartOutcome
    \/ ProcessIssue
    \/ EndOutcome
    \/ StartPrinting
    \/ PrintResult
    \/ Verdict

Spec == Init /\ [][Next]_vars

----
\* The vocabulary of the properties

\* m is a prefix of t
IsPrefix(m, t) ==
    \E n \in 0..Len(t) : Len(m) = n /\ \A i \in 1..n : m[i] = t[i]

\* The rule has a message that the text starts with
Matches(rule, t) == rule.hasMessage /\ IsPrefix(rule.message, t)

\* The rules registered under (r, e), in list order
RulesAt(al, r, e) ==
    IF r \in DOMAIN al /\ e \in DOMAIN al[r] THEN al[r][e] ELSE <<>>

\* Every rule of the YAML file registered for r has been processed
AllProcessed(al, r) ==
    \A e \in Expressions :
      \A i \in 1..Len(RulesAt(al, r, e)) : RulesAt(al, r, e)[i].processed

\* This step handles one issue: severity', text' and expression' are its fields
IssueStep == pc = "issue" /\ k' = k + 1

Rank(sev) == issue_levels[sev]

LastLine == output[Len(output)]

\* The run ended at the verdict of lines 181-184
AtVerdict ==
    pc = "exited" /\ LastLine.kind \in {"failed", "allwell"}

\* The run ended at line 162
StaleExit == pc = "exited" /\ LastLine.kind = "stale"

\* Some issue left in a Result is at the fail level or graver
SomeIssueFails ==
    \E j \in 1..Len(results) :
      \E i \in 1..Len(results[j].issues) :
        Rank(results[j].issues[i].severity) <= fail_level

\* The issue handled in this step is the lone "All OK" marker of its record
MarkerStep ==
    outcomes[idx].n = 1 /\ severity' = "information" /\ text' = AllOK

Appended ==
    result'.issues = Append(result.issues,
                            [severity |-> severity', text |-> text',
                             expression |-> expression'])

----
\* C1: in a run that reaches the verdict, success is false and the exit status
\* is non-zero exactly when an issue left in some Result has a rank <=
\* fail_level; otherwise (no record, no issue left, only lesser issues) the
\* run ends with success and exit status 0.
C1_VerdictIffFailingIssue ==
    AtVerdict =>
      /\ success = ~SomeIssueFails
      /\ (exit_status # 0) = SomeIssueFails
      /\ exit_status = (IF SomeIssueFails THEN 1 ELSE 0)
      /\ LastLine.kind = (IF SomeIssueFails THEN "failed" ELSE "allwell")

\* A run with --fail-at warning that ends failed on a warning
C1_Witness ==
    /\ AtVerdict
    /\ exit_status = 1
    /\ fail_level = 2
    /\ \A j \in 1..Len(results) :
         \A i \in 1..Len(results[j].issues) :
           results[j].issues[i].severity = "warning"

\* C2 (as claimed): no run ends with exit status 0 while a rule loaded from
\* the YAML file was never matched by an issue.
C2_NoRuleSilentlyUnused ==
    exit_status = 0 => \A r \in Ids : AllProcessed(ignored_issues, r)

\* C3 (as claimed): an issue is left out of the Result when a rule with a
\* reason under its (id, expression) has a message its text starts with, and
\* it is appended to the Result when its text starts with no message of a rule
\* under its (id, expression).
C3_Original ==
    [][IssueStep =>
         LET rs == RulesAt(ignored_issues, result.id, expression')
         IN /\ (\E i \in 1..Len(rs) : Matches(rs[i], text') /\ rs[i].hasReason)
                 => result'.issues = result.issues
            /\ (~\E i \in 1..Len(rs) : Matches(rs[i], text')) => Appended]_vars

\* C3 (amended): as C3, but an issue whose text starts with no message of a
\* rule under its (id, expression) is appended only if its severity is known
\* and it is not the lone "All OK" marker of a record under whose (id,
\* expression) no list of rules exists: the marker is dropped, and an unknown
\* severity ends the run with exit status 1.
C3_SuppressedIffPrefixMatch ==
    [][IssueStep =>
         LET rs == RulesAt(ignored_issues, result.id, expression')
         IN /\ (\E i \in 1..Len(rs) : Matches(rs[i], text') /\ rs[i].hasReason)
                 => result'.issues = result.issues
            /\ (~\E i \in 1..Len(rs) : Matches(rs[i], text')) =>
                 IF MarkerStep /\ rs = <<>>
                 THEN result' = result /\ pc' = "issue"
                 ELSE IF severity' \notin DOMAIN issue_levels
                 THEN result' = result /\ pc' = "exited" /\ exit_status' = 1
                 ELSE Appended /\ pc' = "issue"]_vars

\* An error "P: detail" was just left out of the Result because of a rule
C3_Witness ==
    /\ pc = "issue"
    /\ k = 1
    /\ issue_ignored
    /\ severity = "error"
    /\ text = PDetail
    /\ result.issues = <<>>

\* C4: when the text of an issue starts with the message of a rule under its
\* (id, expression) that has no reason, the run ends there with exit status
\* 1: nothing but that diagnostic has been printed, the issue is in no Result,
\* the rule is not marked, and no step follows an exit.
C4_NoReasonAborts ==
    [][/\ pc # "exited"
       /\ IssueStep =>
            LET rs == RulesAt(ignored_issues, result.id, expression')
                rs2 == RulesAt(ignored_issues', result.id, expression')
            IN \A i \in 1..Len(rs) :
                 (Matches(rs[i], text') /\ ~rs[i].hasReason) =>
                   /\ pc' = "exited"
                   /\ exit_status' = 1
                   /\ Len(output') = 1
                   /\ output'[1].kind = "noreason"
                   /\ result' = result
                   /\ results' = results
                   /\ rs2[i].processed = rs[i].processed]_vars

\* The run ended at a rule without a reason that came after a rule with one
C4_Witness ==
    /\ pc = "exited"
    /\ LastLine.kind = "noreason"
    /\ issue_ignored
    /\ exit_status = 1

\* C5 (as claimed): the lone "All OK" information issue of a record leaves the
\* Result empty and every rule as it was, whatever the YAML file holds; and
\* an issue of another shape is not left out by this rule.
C5_MarkerAlwaysExcluded ==
    [][IssueStep =>
         /\ MarkerStep =>
              /\ result'.issues = <<>>
              /\ ignored_issues' = ignored_issues
              /\ pc' = "issue"
         /\ (/\ ~MarkerStep
             /\ RulesAt(ignored_issues, result.id, expression') = <<>>
             /\ severity' \in DOMAIN issue_levels) => Appended]_vars

\* C6 (as claimed): an issue whose severity is none of the four known ones
\* ends the run with a non-zero exit status, whether or not a rule matches it.
C6_UnknownSeverityAborts ==
    [][(IssueStep /\ severity' \notin DOMAIN issue_levels) =>
         (pc' = "exited" /\ exit_status' = 1)]_vars

\* C7: options with fail_level > verbosity_level end the run with a non-zero
\* exit status before the YAML file or the report is read; so wherever a
\* report is processed fail_level <= verbosity_level, and every issue that has
\* set success to false has been printed.
C7_ThresholdsValidatedFirst ==
    /\ (pc # "options" /\ fail_level > verbosity_level) =>
         /\ pc = "exited"
         /\ exit_status = 2
         /\ ignored_issues = EmptyDict
         /\ outcomes = <<>>
         /\ idx = 0
         /\ results = <<>>
         /\ seen = {}
    /\ pc \in {"load", "outcome", "issue", "print"} =>
         fail_level <= verbosity_level
    /\ \A j \in 1..p :
         \A i \in 1..Len(results[j].issues) :
           Rank(results[j].issues[i].severity) <= fail_level =>
             \E n \in 1..Len(output) :
               /\ output[n].kind = "issue"
               /\ output[n].file = results[j].file_path
               /\ output[n].severity = results[j].issues[i].severity
               /\ output[n].text = results[j].issues[i].text
               /\ output[n].expression = results[j].issues[i].expression

\* Options with --fail-at less grave than --verbosity-level were rejected
C7_Witness ==
    /\ pc = "exited"
    /\ exit_status = 2
    /\ fail_level > verbosity_level

\* C8 (as claimed): when several rules under the (id, expression) of an issue
\* match its text, only the first is marked, and the later ones keep their
\* mark as it was.
C8_FirstMatchOnly ==
    [][IssueStep =>
         LET rs == RulesAt(ignored_issues, result.id, expression')
             rs2 == RulesAt(ignored_issues', result.id, expression')
         IN \A i, j \in 1..Len(rs) :
              (i < j /\ Matches(rs[i], text') /\ Matches(rs[j], text'))
                => rs2[j].processed = rs[j].processed]_vars

\* C8 (amended): every rule under the (id, expression) of an issue is looked
\* at, in list order.  When each rule that matches the text has a reason, all
\* of them are marked, and no other rule changes.  Otherwise the run ends at
\* the first matching rule without a reason: the matching rules before it are
\* marked, that rule and the rules after it are left as they were.
C8_EveryMatchMarked ==
    [][IssueStep =>
         LET rs == RulesAt(ignored_issues, result.id, expression')
             rs2 == RulesAt(ignored_issues', result.id, expression')
             M == {i \in 1..Len(rs) : Matches(rs[i], text')}
             bad == {i \in M : ~rs[i].hasReason}
         IN /\ Len(rs2) = Len(rs)
            /\ IF bad = {}
               THEN \A i \in 1..Len(rs) :
                      rs2[i].processed = (rs[i].processed \/ i \in M)
               ELSE LET f == CHOOSE x \in bad : \A y \in bad : x <= y
                    IN /\ pc' = "exited"
                       /\ \A i \in 1..Len(rs) :
                            rs2[i].processed =
                              (rs[i].processed \/ (i \in M /\ i < f))]_vars

\* The first issue of the run has marked two rules of one list
C8_Witness ==
    /\ pc = "issue"
    /\ idx = 1
    /\ k = 1
    /\ LET rs == RulesAt(ignored_issues, result.id, expression)
       IN /\ Len(rs) = 2
          /\ rs[1].processed
          /\ rs[2].processed

\* C9 (as claimed): a stale rule ends the run only after all records have
\* been scanned, and the run does not end before every resource of the report
\* with a stale rule has been reported.
C9_StaleAfterAllRecords ==
    StaleExit =>
      /\ idx = Len(outcomes)
      /\ \A j \in 1..Len(outcomes) :
           ~AllProcessed(ignored_issues, outcomes[j].id) =>
             \E n \in 1..Len(output) :
               output[n].kind = "stale" /\ output[n].id = outcomes[j].id

\* C9 (amended): a stale rule ends the run with exit status 1 right after the
\* issues of the first record whose resource has an unprocessed rule: the
\* records after it are not scanned, and one diagnostic, for that resource,
\* is all that is printed.  The run goes past a record only when every rule
\* of its resource is processed.
C9_StaleAbortsAtOnce ==
    /\ StaleExit =>
         /\ exit_status = 1
         /\ idx >= 1
         /\ Len(results) = idx
         /\ results[idx] = result
         /\ k = outcomes[idx].n
         /\ ~AllProcessed(ignored_issues, outcomes[idx].id)
         /\ Len(output) = 1
         /\ output[1].id = outcomes[idx].id
         /\ \A j \in 1..(idx - 1) :
              AllProcessed(ignored_issues, outcomes[j].id)
    /\ (pc \in {"outcome", "print"} \/ AtVerdict) =>
         /\ Len(results) = idx
         /\ \A j \in 1..idx : AllProcessed(ignored_issues, outcomes[j].id)

\* The run ended as stale at the first of two records, and the resource of
\* the second has a stale rule too
C9_Witness ==
    /\ StaleExit
    /\ idx = 1
    /\ Len(outcomes) = 2
    /\ outcomes[2].id # outcomes[1].id
    /\ ~AllProcessed(ignored_issues, outcomes[2].id)

\* C10: the check after a record looks at every rule registered for the id of
\* the record, and marks are never taken back: the run goes past the record
\* exactly when each rule registered for that id has been matched by an issue
\* read so far in a record with that id (this record or an earlier one), and
\* ends there as stale otherwise.
MatchedSoFar(r, e, rule) ==
    \E s \in seen : s.id = r /\ s.expression = e /\ Matches(rule, s.text)

AllMatchedSoFar(r) ==
    \A e \in Expressions :
      \A i \in 1..Len(RulesAt(ignored_issues, r, e)) :
        MatchedSoFar(r, e, RulesAt(ignored_issues, r, e)[i])

\* The check of lines 157-162 after record idx has run
Checked == idx >= 1 /\ Len(results) = idx

C10_StaleCheckPerRecord ==
    /\ Checked => pc \in {"outcome", "print", "exited"}
    /\ (Checked /\ pc = "outcome") => AllMatchedSoFar(outcomes[idx].id)
    /\ (Checked /\ pc = "exited" /\ ~AtVerdict) =>
         (StaleExit /\ ~AllMatchedSoFar(outcomes[idx].id))
    /\ (pc # "exited" \/ AtVerdict \/ StaleExit) =>
         \A r \in Ids, e \in Expressions :
           \A i \in 1..Len(RulesAt(ignored_issues, r, e)) :
             RulesAt(ignored_issues, r, e)[i].processed
               = MatchedSoFar(r, e, RulesAt(ignored_issues, r, e)[i])

\* The run went past a second record of a resource whose rule was matched in
\* the first record
C10_Witness ==
    /\ pc = "outcome"
    /\ idx = 2
    /\ outcomes[1].id = outcomes[2].id
    /\ outcomes[1].n = 1
    /\ outcomes[2].n = 0
    /\ outcomes[1].id \in DOMAIN ignored_issues

====
